---- MODULE Spec2Model ----
(***************************************************************************)
(* Lazily initialised statics of lazy-static.rs.                           *)
(*                                                                         *)
(* Two access paths are modelled, one per source file:                     *)
(*   - Lazy<T>::get (src/src/nightly_lazy.rs): an Option<T> slot filled    *)
(*     inside std::sync::Once::call_once.  call_once runs its closure at   *)
(*     most once; when the closure panics the Once is poisoned and every   *)
(*     later call_once on it panics.                                       *)
(*   - the Deref generated by lazy_static! (src/src/lazy_static.rs): a raw *)
(*     pointer _STATIC written inside sync::one::Once::doit.  doit takes   *)
(*     the Once's mutex and runs the closure when no run has completed     *)
(*     yet; a closure that fails unwinds through doit, which releases the  *)
(*     mutex without recording a completion: that Once has no poisoned     *)
(*     state, the next caller that gets the mutex runs its closure.        *)
(* Both Once types come from the Rust standard library; they are modelled  *)
(* at the places where the two files call them.                            *)
(***************************************************************************)
EXTENDS Integers, Sequences, FiniteSets, TLC

\* Bounds of the model.
NumThreads == 2
MaxCalls == 3
LiveCalls == 2

Threads == 1..NumThreads

\* The declared statics: one Lazy<T> cell, and the two macro statics of the
\* crate documentation (COUNT is computed from HASHMAP).
LazyCells == {"LAZY"}
MacroCells == {"HASHMAP", "COUNT"}
Cells == LazyCells \cup MacroCells

OnceState == {"Uninitialized", "Running", "Complete", "Poisoned"}

-----------------------------------------------------------------------------
\* Values held by the statics: a uint or a map.
UintVal(n) == [tag |-> "uint", n |-> n, entries |-> {}]
MapVal(S) == [tag |-> "map", n |-> 0, entries |-> S]

\* The three inserts of the HASHMAP initializer, in program order.
InsertOrder == << <<0, "foo">>, <<1, "bar">>, <<2, "baz">> >>

\* What a dependent initializer computes from the static it reads:
\* HASHMAP.len() for a map, the number itself for a uint.
Use(v) == IF v.tag = "map" THEN Cardinality(v.entries) ELSE v.n

\* Option<T>
None == [some |-> FALSE, x |-> UintVal(0)]
Some(v) == [some |-> TRUE, x |-> v]

\* References and raw pointers.
NullPtr == [region |-> "null", cell |-> "-", at |-> 0]
HeapPtr(a) == [region |-> "heap", cell |-> "-", at |-> a]
StaticRef(c) == [region |-> "static", cell |-> c, at |-> 0]

\* Errors a get call can fail with.
NoErr == [kind |-> "none", cell |-> "-"]
PoisonedError(c) == [kind |-> "PoisonedError", cell |-> c]
ProducerFailure(c) == [kind |-> "ProducerFailure", cell |-> c]
Trap == [kind |-> "Trap", cell |-> "-"]

-----------------------------------------------------------------------------
\* Initializer expressions (the producer closures).
\*   val:  a function call that yields the uint n      (times_two(21))
\*   map:  builds a map with three inserts             (HASHMAP)
\*   use:  reads the static c and computes from it     (COUNT = HASHMAP.len())
\* A fallible expression may fail at any step of its evaluation.
ValExpr(n, fb) == [k |-> "val", n |-> n, c |-> "-", fallible |-> fb]
MapExpr(fb) == [k |-> "map", n |-> 0, c |-> "-", fallible |-> fb]
UseExpr(c) == [k |-> "use", n |-> 0, c |-> c, fallible |-> FALSE]
NoExpr == [k |-> "none", n |-> 0, c |-> "-", fallible |-> FALSE]

\* The producers callers pass to Lazy::get: one that yields 1 unless it
\* fails, one that yields 2, and one that reads the cell it initialises.
LazyProducers == {ValExpr(1, TRUE), ValExpr(2, FALSE), UseExpr("LAZY")}

\* The declarations the macro is expanded for: the documentation's
\* HASHMAP / COUNT, the same with a HASHMAP initializer that can fail, and a
\* HASHMAP initializer that reads HASHMAP itself.
Declarations ==
    { [HASHMAP |-> e, COUNT |-> UseExpr("HASHMAP")] :
        e \in {MapExpr(FALSE), MapExpr(TRUE), UseExpr("HASHMAP")} }

VARIABLES
    gate,         \* gate[c]: state of the cell's Once
    lazy,         \* lazy[c]: the Option<T> slot of a Lazy<T> cell (self.0)
    STATIC,       \* STATIC[c]: the macro's _STATIC raw pointer
    heap,         \* heap[a]: the boxed value at heap address a
    stack,        \* stack[t]: the get calls thread t is inside, outermost first
    calls,        \* top-level get calls started so far, over all threads
    decl,         \* decl[c]: the initializer expression of macro static c
    log,          \* the get calls that have ended, with their outcome
    invocations,  \* invocations[c]: producer invocations on cell c so far
    failed,       \* failed[c]: a producer invocation on cell c has failed
    started,      \* started[c]: a get call on cell c has started
    winner,       \* winner[c]: the producer whose value was stored in cell c
    writes        \* writes[c]: writes of cell c's slot so far

vars == <<gate, lazy, STATIC, heap, stack, calls, decl, log, invocations,
          failed, started, winner, writes>>

-----------------------------------------------------------------------------
\* A constructor that leaves a value in the slot.
LazyNew_Some == [slot |-> Some(UintVal(0)), once |-> "Uninitialized"]

\* Lazy::new(): Lazy(None, ONCE_INIT)
LazyNew == [slot |-> None, once |-> "Uninitialized"]

\* static mut _STATIC: *const T = 0 as *const T; static mut _ONCE = ONCE_INIT
MacroNew == [ptr |-> NullPtr, once |-> "Uninitialized"]

Init ==
    /\ gate = [c \in Cells |->
                 IF c \in LazyCells THEN LazyNew.once ELSE MacroNew.once]
    /\ lazy = [c \in LazyCells |-> LazyNew.slot]
    /\ STATIC = [c \in MacroCells |-> MacroNew.ptr]
    /\ heap = << >>
    /\ stack = [t \in Threads |-> << >>]
    /\ calls = 0
    /\ decl \in Declarations
    /\ log = {}
    /\ invocations = [c \in Cells |-> 0]
    /\ failed = [c \in Cells |-> FALSE]
    /\ started = [c \in Cells |-> FALSE]
    /\ winner = [c \in Cells |-> NoExpr]
    /\ writes = [c \in Cells |-> 0]

-----------------------------------------------------------------------------
\* Frames of the call stack.
Depth(t) == Len(stack[t])
Top(t) == stack[t][Depth(t)]
InCall(t) == Depth(t) > 0
SetTop(t, fr) == [stack EXCEPT ![t][Depth(t)] = fr]

\* A frame records whether its call ran the producer, whether it was blocked,
\* and the state it found the Once in when it entered call_once / doit.
Frame(c, f) ==
    [cell |-> c, pc |-> "call", f |-> f, local |-> UintVal(0),
     ran |-> FALSE, waited |-> FALSE, found |-> "-", err |-> NoErr]

\* The closure a get call on cell c passes to its Once: the macro's deref
\* passes the declared expression, Lazy::get its argument f.
ProducerOf(c, f) == IF c \in MacroCells THEN decl[c] ELSE f

\* The producers a get call on cell c can be made with.
ProducersFor(c) == IF c \in MacroCells THEN {decl[c]} ELSE LazyProducers

\* The value a reference refers to.
Deref(r) ==
    IF r.region = "heap" THEN heap[r.at]
    ELSE IF r.region = "static" THEN lazy[r.cell].x
    ELSE UintVal(0)

SlotFilled(c) ==
    IF c \in LazyCells THEN lazy[c].some ELSE STATIC[c] # NullPtr

\* A deref that hands out the most recent box instead of the static's own.
SlotRef_LastBox(c) ==
    IF c \in LazyCells THEN StaticRef(c)
    ELSE IF STATIC[c] = NullPtr THEN NullPtr ELSE HeapPtr(Len(heap))

\* Some(ref x) => x  /  &*_STATIC
SlotRef(c) == IF c \in LazyCells THEN StaticRef(c) ELSE STATIC[c]

-----------------------------------------------------------------------------
\* A Once that lets a second caller run its closure beside the first.
Enter_Racy(g) ==
    CASE g = "Uninitialized" -> "run"
      [] g = "Running" -> "run"
      [] g = "Complete" -> "return"
      [] g = "Poisoned" -> "panic"

\* A Once that runs the closure of every caller, completed or not.
Enter_Overwrite(g) ==
    CASE g = "Uninitialized" -> "run"
      [] g = "Running" -> "wait"
      [] g = "Complete" -> "run"
      [] g = "Poisoned" -> "panic"

\* A Once whose callers do not wait for the running closure.
Enter_NoWait(g) ==
    CASE g = "Uninitialized" -> "run"
      [] g = "Running" -> "return"
      [] g = "Complete" -> "return"
      [] g = "Poisoned" -> "panic"

\* A Once that lets callers through after a failed run.
Enter_SilentPoison(g) ==
    CASE g = "Uninitialized" -> "run"
      [] g = "Running" -> "wait"
      [] g = "Complete" -> "return"
      [] g = "Poisoned" -> "return"

\* What a caller of call_once / doit does on finding the Once in state g.
Enter(g) ==
    CASE g = "Uninitialized" -> "run"
      [] g = "Running" -> "wait"
      [] g = "Complete" -> "return"
      [] g = "Poisoned" -> "panic"

\* A Once that is left Running by a failed run: nobody is woken.
OnFailure_Stuck(c) == "Running"

\* A Once that records a failed run as a completed one.
OnFailure_Complete(c) == "Complete"

\* The state the closure's unwinding leaves the Once of cell c in.
OnFailure(c) == IF c \in LazyCells THEN "Poisoned" ELSE "Uninitialized"

\* An initializer that hands its map over after the first insert.
EvalDone_Early(f, local) ==
    IF f.k = "map" THEN Cardinality(local.entries) >= 1 ELSE FALSE

\* The producer has computed its value (for the map: after the last insert).
EvalDone(f, local) ==
    IF f.k = "map" THEN Cardinality(local.entries) = Len(InsertOrder)
    ELSE FALSE

\* A get call starts: the access point is entered with its producer.
StartGet(t, c, f) ==
    /\ ~InCall(t)
    /\ calls < MaxCalls
    /\ stack' = [stack EXCEPT ![t] = << Frame(c, ProducerOf(c, f)) >>]
    /\ calls' = calls + 1
    /\ started' = [started EXCEPT ![c] = TRUE]
    /\ UNCHANGED <<gate, lazy, STATIC, heap, decl, log, invocations, failed, winner,
                   writes>>

\* The effect of finding the Once in state g, for the caller on top of t's stack.
Dispatch(t, g) ==
    LET fr == [Top(t) EXCEPT !.found = IF @ = "-" THEN g ELSE @]
        c == fr.cell
        e == Enter(g)
    IN  CASE e = "run" ->
               /\ gate' = [gate EXCEPT ![c] = "Running"]
               /\ invocations' = [invocations EXCEPT ![c] = @ + 1]
               /\ stack' = SetTop(t, [fr EXCEPT !.pc = "eval", !.ran = TRUE,
                              !.local = IF fr.f.k = "map" THEN MapVal({})
                                        ELSE UintVal(0)])
          [] e = "wait" ->
               /\ stack' = SetTop(t, [fr EXCEPT !.pc = "wait", !.waited = TRUE])
               /\ UNCHANGED <<gate, invocations>>
          [] e = "return" ->
               /\ stack' = SetTop(t, [fr EXCEPT !.pc = "read"])
               /\ UNCHANGED <<gate, invocations>>
          [] e = "panic" ->
               /\ stack' = SetTop(t, [fr EXCEPT !.pc = "unwind",
                                                !.err = PoisonedError(c)])
               /\ UNCHANGED <<gate, invocations>>

\* self.1.call_once(..) / _ONCE.doit(..) is entered.
Call(t) ==
    /\ InCall(t)
    /\ Top(t).pc = "call"
    /\ Dispatch(t, gate[Top(t).cell])
    /\ UNCHANGED <<lazy, STATIC, heap, calls, decl, log, failed, started, winner,
                   writes>>

\* A blocked caller is woken once the Once has left Running.
Wake(t) ==
    /\ InCall(t)
    /\ Top(t).pc = "wait"
    /\ gate[Top(t).cell] # "Running"
    /\ Dispatch(t, gate[Top(t).cell])
    /\ UNCHANGED <<lazy, STATIC, heap, calls, decl, log, failed, started, winner,
                   writes>>

\* One step of the producer's evaluation.
Eval(t) ==
    /\ InCall(t)
    /\ Top(t).pc = "eval"
    /\ LET fr == Top(t)
           f == fr.f
       IN  CASE f.k = "val" ->
                  /\ stack' = SetTop(t, [fr EXCEPT !.pc = "store",
                                                   !.local = UintVal(f.n)])
                  /\ UNCHANGED started
             [] f.k = "map" ->
                  /\ stack' = SetTop(t,
                       IF EvalDone(f, fr.local)
                       THEN [fr EXCEPT !.pc = "store"]
                       ELSE [fr EXCEPT !.local = MapVal(fr.local.entries \cup
                               {InsertOrder[Cardinality(fr.local.entries) + 1]})])
                  /\ UNCHANGED started
             [] f.k = "use" ->
                  /\ stack' = [stack EXCEPT ![t] =
                       Append([@ EXCEPT ![Depth(t)] = [fr EXCEPT !.pc = "sub"]],
                              Frame(f.c, ProducerOf(f.c, ValExpr(1, FALSE))))]
                  /\ started' = [started EXCEPT ![f.c] = TRUE]
    /\ UNCHANGED <<gate, lazy, STATIC, heap, calls, decl, log, invocations,
                   failed, winner,
                   writes>>

\* The producer fails while it is being evaluated.
Fail(t) ==
    /\ InCall(t)
    /\ Top(t).pc = "eval"
    /\ Top(t).f.fallible
    /\ stack' = SetTop(t, [Top(t) EXCEPT !.pc = "unwind",
                                         !.err = ProducerFailure(Top(t).cell)])
    /\ UNCHANGED <<gate, lazy, STATIC, heap, calls, decl, log, invocations,
                   failed, started, winner,
                   writes>>

\* *r = Some(f())  /  _STATIC = transmute(box() ($e))
Store(t) ==
    /\ InCall(t)
    /\ Top(t).pc = "store"
    /\ LET fr == Top(t)
           c == fr.cell
       IN  /\ IF c \in LazyCells
              THEN /\ lazy' = [lazy EXCEPT ![c] = Some(fr.local)]
                   /\ UNCHANGED <<STATIC, heap>>
              ELSE /\ heap' = Append(heap, fr.local)
                   /\ STATIC' = [STATIC EXCEPT ![c] = HeapPtr(Len(heap) + 1)]
                   /\ UNCHANGED lazy
           /\ winner' = [winner EXCEPT ![c] = fr.f]
           /\ writes' = [writes EXCEPT ![c] = @ + 1]
           /\ stack' = SetTop(t, [fr EXCEPT !.pc = "finish"])
    /\ UNCHANGED <<gate, calls, decl, log, invocations, failed, started>>

\* The closure has returned: the Once records the completion.
Finish(t) ==
    /\ InCall(t)
    /\ Top(t).pc = "finish"
    /\ gate' = [gate EXCEPT ![Top(t).cell] = "Complete"]
    /\ stack' = SetTop(t, [Top(t) EXCEPT !.pc = "read"])
    /\ UNCHANGED <<lazy, STATIC, heap, calls, decl, log, invocations, failed,
                   started, winner,
                   writes>>

\* The call on top of t's stack ends; its caller, a producer, goes on.
Leave(t, outcome, ref, err) ==
    LET s == stack[t]
        n == Len(s)
        rest == SubSeq(s, 1, n - 1)
    IN  /\ stack' = [stack EXCEPT ![t] =
              IF n = 1 THEN << >>
              ELSE IF outcome = "ref"
                   THEN [rest EXCEPT ![n - 1] =
                           [@ EXCEPT !.pc = "store",
                                     !.local = UintVal(Use(Deref(ref)))]]
                   ELSE [rest EXCEPT ![n - 1] =
                           [@ EXCEPT !.pc = "unwind", !.err = err]]]
        /\ log' = log \cup
              {[cell |-> s[n].cell, outcome |-> outcome, ref |-> ref,
                val |-> Deref(ref), err |-> err, ran |-> s[n].ran,
                waited |-> s[n].waited, found |-> s[n].found, f |-> s[n].f]}

\* The slot is read and the reference returned.  An empty slot is undefined
\* behaviour (unreachable() / a null dereference): the call traps or returns
\* a reference to nothing.
Read(t) ==
    /\ InCall(t)
    /\ Top(t).pc = "read"
    /\ LET c == Top(t).cell
       IN  IF SlotFilled(c)
           THEN Leave(t, "ref", SlotRef(c), NoErr)
           ELSE \/ Leave(t, "err", NullPtr, Trap)
                \/ Leave(t, "ref", NullPtr, NoErr)
    /\ UNCHANGED <<gate, lazy, STATIC, heap, calls, decl, invocations, failed,
                   started, winner,
                   writes>>

\* A failure leaves the call.  When it unwinds through the Once's running
\* closure, the Once is left as OnFailure says.
Unwind(t) ==
    /\ InCall(t)
    /\ Top(t).pc = "unwind"
    /\ LET fr == Top(t)
           c == fr.cell
       IN  /\ IF fr.ran
              THEN /\ gate' = [gate EXCEPT ![c] = OnFailure(c)]
                   /\ failed' = [failed EXCEPT ![c] = TRUE]
              ELSE UNCHANGED <<gate, failed>>
           /\ Leave(t, "err", NullPtr, fr.err)
    /\ UNCHANGED <<lazy, STATIC, heap, calls, decl, invocations, started, winner,
                   writes>>

Next ==
    \/ \E t \in Threads, c \in Cells : \E f \in ProducersFor(c) : StartGet(t, c, f)
    \/ \E t \in Threads : Call(t)
    \/ \E t \in Threads : Wake(t)
    \/ \E t \in Threads : Eval(t)
    \/ \E t \in Threads : Fail(t)
    \/ \E t \in Threads : Store(t)
    \/ \E t \in Threads : Finish(t)
    \/ \E t \in Threads : Read(t)
    \/ \E t \in Threads : Unwind(t)

Spec == Init /\ [][Next]_vars

\* A step of thread t inside a get call.
Step(t) ==
    \/ Call(t) \/ Wake(t) \/ Eval(t) \/ Fail(t)
    \/ Store(t) \/ Finish(t) \/ Read(t) \/ Unwind(t)

\* The same program with LiveCalls top-level calls.
LiveNext ==
    \/ \E t \in Threads, c \in Cells : \E f \in ProducersFor(c) :
          calls < LiveCalls /\ StartGet(t, c, f)
    \/ \E t \in Threads : Step(t)

\* Parallel threads: a thread that can take a step inside get eventually
\* takes one.
FairSpec ==
    Init /\ [][LiveNext]_vars /\ \A t \in Threads : WF_vars(Step(t))

-----------------------------------------------------------------------------
TypeOK ==
    /\ gate \in [Cells -> OnceState]
    /\ calls \in 0..MaxCalls

\* No thread is inside a get call on cell c.
NoCallOn(c) ==
    \A t \in Threads : \A i \in 1..Depth(t) : stack[t][i].cell # c

\* The get calls on cell c that have ended, and those that returned a reference.
Ended(c) == {r \in log : r.cell = c}
Returned(c) == {r \in log : r.cell = c /\ r.outcome = "ref"}

\* The value the expression f evaluates to.
FullMap == MapVal({InsertOrder[i] : i \in 1..Len(InsertOrder)})
Result(f) ==
    CASE f.k = "val" -> UintVal(f.n)
      [] f.k = "map" -> FullMap
      [] f.k = "use" -> UintVal(Use(Deref(SlotRef(f.c))))
      [] OTHER -> UintVal(0)

-----------------------------------------------------------------------------
\* C1  Exactly-once: when get calls on a cell have been made, none of its
\* producer invocations failed and every call on it has returned, the
\* producer has been invoked exactly once on that cell.
C1_ExactlyOnce ==
    \A c \in Cells :
        (started[c] /\ ~failed[c] /\ NoCallOn(c)) => invocations[c] = 1

\* Two calls ran concurrently on a cell (one waited for the other's producer)
\* and both have returned.
C1_Witness ==
    \E c \in Cells :
        /\ ~failed[c] /\ NoCallOn(c)
        /\ \E r1, r2 \in Returned(c) : r1.ran /\ ~r2.ran /\ r2.waited

\* C2  Poisoning propagation, as the claim states it: once a producer
\* invocation on a cell has failed, no get call on that cell returns a
\* reference, and every call on it other than the ones that ran the producer
\* fails with PoisonedError.
C2_PoisonPropagation ==
    \A c \in Cells :
        failed[c] =>
            \A r \in Ended(c) :
                /\ r.outcome = "err"
                /\ r.ran \/ r.err = PoisonedError(c)

\* C3  Poisoning is permanent and nothing is retried, as the claim states
\* it: a Poisoned gate stays Poisoned, and after a producer invocation on a
\* cell has failed no producer is invoked on that cell again.
C3_NoRetry ==
    [][\A c \in Cells :
          /\ gate[c] = "Poisoned" => gate'[c] = "Poisoned"
          /\ failed[c] => invocations'[c] = invocations[c]]_vars

\* C4  Every get call that returns a reference yields the value of the
\* producer whose result was stored (the winner's), whatever producer the
\* caller itself passed; on a Lazy<T> cell, where callers pass their own
\* producers, no second producer is ever invoked.
C4_WinnerValue ==
    /\ \A r \in log :
          r.outcome = "ref" =>
              /\ winner[r.cell] # NoExpr
              /\ r.val = Result(winner[r.cell])
    /\ \A c \in LazyCells : invocations[c] <= 1

\* Two callers passed producers yielding different values and both returned.
C4_Witness ==
    \E r1, r2 \in Returned("LAZY") :
        /\ r1.f = ValExpr(1, TRUE) /\ r2.f = ValExpr(2, FALSE)
        /\ r1.val = r2.val

\* C5  Reference stability: all get calls on a cell that returned a
\* reference returned the same reference, and the storage it refers to holds
\* the value every one of them saw.
C5_SameReference ==
    \A c \in Cells :
        \A r1, r2 \in Returned(c) :
            /\ r1.ref = r2.ref
            /\ r1.val = r2.val
            /\ Deref(r1.ref) = r1.val

\* Three calls on one macro static returned: the initializing one, one that
\* waited for it, and one that came after the completion.
C5_Witness ==
    \E c \in MacroCells :
        \E r1, r2, r3 \in Returned(c) :
            r1.ran /\ r2.waited /\ ~r3.ran /\ ~r3.waited

\* C6  Memory visibility: a reference returned by a get call on a static
\* whose initializer builds the three-entry map refers to the complete map.
C6_CompleteMap ==
    \A r \in log :
        (r.outcome = "ref" /\ r.f.k = "map") =>
            /\ r.val = FullMap
            /\ Deref(r.ref) = FullMap

\* A reader that was blocked while the map was being built has returned.
C6_Witness ==
    \E r \in Returned("HASHMAP") : r.f.k = "map" /\ r.waited /\ ~r.ran

\* C7  Lazy timing: as long as no get call has started on a cell, its
\* producer has not been invoked, its gate is Uninitialized and its slot is
\* empty.
C7_LazyTiming ==
    \A c \in Cells :
        ~started[c] =>
            /\ invocations[c] = 0
            /\ gate[c] = "Uninitialized"
            /\ ~SlotFilled(c)

\* Every call has been made and has returned, one static was initialised and
\* another one was never accessed.
C7_Witness ==
    /\ calls = MaxCalls
    /\ \A t \in Threads : ~InCall(t)
    /\ \E c1, c2 \in Cells : ~started[c1] /\ gate[c2] = "Complete"

\* C8  Failure attribution: a get call that ran the producer and failed
\* fails with the producer's own failure, never with the cell's
\* PoisonedError; every other get call that fails does so with the cell's
\* PoisonedError.
C8_FailureAttribution ==
    \A r \in log :
        r.outcome = "err" =>
            IF r.ran
            THEN \/ r.err = ProducerFailure(r.cell)
                 \/ r.f.k = "use" /\ r.f.c # r.cell /\ r.err.cell = r.f.c
                      /\ r.err.kind \in {"ProducerFailure", "PoisonedError"}
            ELSE r.err = PoisonedError(r.cell)

\* On one cell the winner failed with its producer's failure and a caller
\* that was blocked on it failed with PoisonedError.
C8_Witness ==
    \E r1, r2 \in Ended("LAZY") :
        /\ r1.ran /\ r1.err = ProducerFailure("LAZY")
        /\ ~r2.ran /\ r2.waited /\ r2.err = PoisonedError("LAZY")

\* Thread t is inside a get call on cell c made by c's own producer.
Reentered(t, c) ==
    \E i, j \in 1..Depth(t) :
        i < j /\ stack[t][i].cell = c /\ stack[t][j].cell = c

\* C9  Re-entrancy deadlock: a thread whose producer called get on the cell
\* being initialised stays inside both calls for ever, and the gate stays
\* Running.
C9_ReentrancyDeadlock ==
    /\ [](\A t \in Threads : \A c \in Cells :
            Reentered(t, c) => gate[c] = "Running")
    /\ [][\A t \in Threads : \A c \in Cells :
            Reentered(t, c) => Reentered(t, c)']_vars

\* A producer has called get on its own cell and is blocked there, on a
\* Lazy<T> cell and on a macro static.
C9_Witness ==
    \E t1, t2 \in Threads :
        /\ Reentered(t1, "LAZY") /\ Top(t1).pc = "wait"
        /\ Reentered(t2, "HASHMAP") /\ Top(t2).pc = "wait"

\* C10  The slot is read only under a Complete gate: a thread that is at the
\* read of the slot finds the gate of that cell Complete.
C10_ReadOnlyComplete ==
    \A t \in Threads :
        (InCall(t) /\ Top(t).pc = "read") => gate[Top(t).cell] = "Complete"

\* A caller that was blocked on the gate has reached the read of the slot.
C10_Witness ==
    \E t \in Threads :
        InCall(t) /\ Top(t).pc = "read" /\ Top(t).waited /\ ~Top(t).ran

-----------------------------------------------------------------------------
\* What the slot of cell c holds: the Option, or the pointer and its box.
SlotContent(c) ==
    IF c \in LazyCells THEN [opt |-> lazy[c], ptr |-> NullPtr]
    ELSE [opt |-> Some(Deref(STATIC[c])), ptr |-> STATIC[c]]

\* Thread t takes a step inside the call on top of its stack, which ran the
\* producer of cell c (it won the transition out of Uninitialized).
WinnerStep(t, c) ==
    /\ InCall(t) /\ Top(t).cell = c /\ Top(t).ran
    /\ stack'[t] # stack[t]

\* C11  Write-once slot: the slot of a cell is written at most once; every
\* write is made by the thread that won the gate, while the gate is Running
\* and the slot is still empty; under a Complete gate the slot's contents
\* do not change.
C11_WriteOnce ==
    /\ [](\A c \in Cells : writes[c] <= 1)
    /\ [][\A c \in Cells :
            /\ (writes'[c] # writes[c] \/ SlotContent(c)' # SlotContent(c)) =>
                  /\ gate[c] = "Running"
                  /\ ~SlotFilled(c)
                  /\ \E t \in Threads : WinnerStep(t, c)
            /\ gate[c] = "Complete" => SlotContent(c)' = SlotContent(c)]_vars

\* The Lazy<T> slot and the HASHMAP pointer have both been written, the
\* latter by a second run after a failed one, and their gates are Complete.
C11_Witness ==
    /\ writes["LAZY"] = 1 /\ gate["LAZY"] = "Complete"
    /\ writes["HASHMAP"] = 1 /\ gate["HASHMAP"] = "Complete"
    /\ failed["HASHMAP"]

\* The transitions the claim allows a gate.
ForwardTransitions ==
    { <<"Uninitialized", "Running">>, <<"Running", "Complete">>,
      <<"Running", "Poisoned">> }

\* C12  Gate state monotonicity, as the claim states it: a gate changes only
\* by Uninitialized -> Running, Running -> Complete or Running -> Poisoned
\* (so it never returns to Uninitialized, and Complete and Poisoned are
\* terminal), and the transition out of Uninitialized is taken once, by
\* one thread.
C12_Monotone ==
    [][\A c \in Cells :
          /\ gate'[c] # gate[c] => <<gate[c], gate'[c]>> \in ForwardTransitions
          /\ (gate[c] = "Uninitialized" /\ gate'[c] = "Running") =>
                invocations[c] = 0]_vars

\* C13  Waiters do not overtake the initializer: a call that found the gate
\* Running and did not run the producer itself is at the slot read, or
\* leaving with a failure, only when the gate is Complete or Poisoned; while
\* the gate it waits for is Running it stays blocked.
C13_NoOvertaking ==
    \A t \in Threads :
        (InCall(t) /\ Top(t).found = "Running" /\ ~Top(t).ran) =>
            /\ Top(t).pc \in {"wait", "read", "unwind"}
            /\ Top(t).pc \in {"read", "unwind"} =>
                  gate[Top(t).cell] \in {"Complete", "Poisoned"}
            /\ Top(t).pc = "read" => SlotFilled(Top(t).cell)

\* A caller that found the gate Running and was blocked is leaving with
\* PoisonedError, the gate now being Poisoned.
C13_Witness ==
    \E t \in Threads :
        /\ InCall(t) /\ Top(t).found = "Running" /\ ~Top(t).ran
        /\ Top(t).pc = "unwind" /\ Top(t).err = PoisonedError(Top(t).cell)
        /\ gate[Top(t).cell] = "Poisoned"

\* The threads that can never leave their call: those whose producer called
\* get on its own cell (C9), and those waiting for a producer run by such a
\* thread.
WaitsFor(t, T) ==
    /\ InCall(t) /\ Top(t).pc \in {"call", "wait"}
    /\ \E t2 \in T : \E i \in 1..Depth(t2) :
          stack[t2][i].cell = Top(t).cell /\ stack[t2][i].ran
RECURSIVE StuckClosure(_, _)
StuckClosure(T, n) ==
    IF n = 0 THEN T
    ELSE StuckClosure(T \cup {t \in Threads : WaitsFor(t, T)}, n - 1)
StuckThreads ==
    StuckClosure({t \in Threads : \E c \in Cells : Reentered(t, c)},
                 NumThreads)

\* C14  Liveness of waiters: under fair scheduling no thread stays inside a
\* get call for ever (every call returns or fails, the blocked ones after
\* the gate has left Running), unless the producer it runs or waits for
\* never terminates because it called get on its own cell: again and again
\* every thread that is not stuck in that way is outside all its calls.
C14_WaitersLeave ==
    []<>(\A t \in Threads : InCall(t) => t \in StuckThreads)

\* A call that was blocked on a Running gate has ended with PoisonedError
\* after the producer it waited for failed, and no thread is inside a call.
C14_Witness ==
    /\ \A t \in Threads : ~InCall(t)
    /\ \E r \in log :
          r.found = "Running" /\ r.waited /\ r.err = PoisonedError(r.cell)

\* Thread t's innermost call is on the fast path: it enters, or has
\* entered, call_once / doit with the gate already Complete.
FastPath(t) ==
    /\ InCall(t)
    /\ \/ Top(t).pc = "call" /\ gate[Top(t).cell] = "Complete"
       \/ Top(t).found = "Complete"

\* C15  Fast path: a get call that finds the gate Complete goes straight to
\* the slot read, is never blocked and never runs its producer; it returns
\* the reference to the filled slot, and none of its steps changes a gate,
\* a slot, the heap or the invocation counts.
C15_FastPath ==
    /\ [](\A t \in Threads :
            (InCall(t) /\ Top(t).found = "Complete") =>
                /\ Top(t).pc = "read"
                /\ ~Top(t).ran /\ ~Top(t).waited
                /\ SlotFilled(Top(t).cell))
    /\ [](\A r \in log :
            r.found = "Complete" =>
                /\ r.outcome = "ref" /\ ~r.ran /\ ~r.waited
                /\ r.ref = SlotRef(r.cell))
    /\ [][\A t \in Threads :
            (FastPath(t) /\ stack'[t] # stack[t]) =>
                UNCHANGED <<gate, lazy, STATIC, heap, invocations, writes>>]_vars

\* A Lazy::get call that found the gate Complete returned the reference
\* although it passed another producer than the one that filled the slot.
C15_Witness ==
    \E r \in Returned("LAZY") :
        r.found = "Complete" /\ r.f # winner["LAZY"]

\* The crate's doc example as declared: HASHMAP's expression builds the map
\* (it reads neither COUNT nor HASHMAP), COUNT's is HASHMAP.len(), and no
\* producer invocation has failed.
DocRun ==
    /\ decl["HASHMAP"].k = "map" /\ decl["COUNT"] = UseExpr("HASHMAP")
    /\ ~failed["HASHMAP"] /\ ~failed["COUNT"]

InMacroCall(t) == InCall(t) /\ Top(t).cell \in MacroCells

\* C16  Cross-cell dependency: with COUNT = HASHMAP.len() and a HASHMAP
\* expression that does not read COUNT, on runs whose producers complete
\* normally every deref of COUNT or HASHMAP ends by returning a reference,
\* each of the two expressions is evaluated exactly once, COUNT is Complete
\* only over a Complete HASHMAP and holds the length of the fully built map,
\* and under fair scheduling no thread stays inside a deref for ever.
C16_CrossCell ==
    /\ [](DocRun =>
            /\ \A c \in MacroCells :
                  /\ invocations[c] <= 1
                  /\ (started[c] /\ NoCallOn(c)) => invocations[c] = 1
                  /\ \A r \in Ended(c) : r.outcome = "ref"
            /\ gate["COUNT"] = "Complete" =>
                  /\ gate["HASHMAP"] = "Complete"
                  /\ Deref(STATIC["HASHMAP"]) = FullMap
                  /\ Deref(STATIC["COUNT"]) =
                        UintVal(Cardinality(FullMap.entries)))
    /\ []<>(decl["HASHMAP"].k = "map" => \A t \in Threads : ~InMacroCall(t))

\* One thread dereferenced COUNT while another dereferenced HASHMAP: one
\* HASHMAP call waited for the other's evaluation, both threads are out, and
\* COUNT holds 3.
C16_Witness ==
    /\ DocRun
    /\ \A t \in Threads : ~InCall(t)
    /\ \E r1 \in Returned("COUNT"), r2 \in Returned("HASHMAP") :
          r1.ran /\ r2.waited
    /\ Deref(STATIC["COUNT"]) = UintVal(3)

\* C17  The slot read never finds the slot empty: whenever a thread is at
\* the match on self.0 (the dereference of _STATIC), the slot is Some (the
\* pointer is non-null), it reached the read with no error pending, and no
\* call has ever ended in the unreachable() branch or handed out a null
\* pointer -- also on runs where a producer failed.
C17_SlotReadFindsValue ==
    /\ \A t \in Threads : \A i \in 1..Depth(t) :
          stack[t][i].pc = "read" =>
              /\ SlotFilled(stack[t][i].cell)
              /\ SlotRef(stack[t][i].cell) # NullPtr
              /\ stack[t][i].err = NoErr
    /\ \A r \in log :
          /\ r.err # Trap
          /\ r.outcome = "ref" => r.ref # NullPtr

\* A thread is at the slot read of a cell one of whose producer invocations
\* failed before.
C17_Witness ==
    \E t \in Threads :
        /\ InCall(t) /\ Top(t).pc = "read"
        /\ failed[Top(t).cell]

\* C18  Gate/slot consistency: a cell whose gate is Uninitialized or
\* Poisoned has an empty slot, a cell whose gate is Complete has a filled
\* one, and a thread unwinding from its own failed producer leaves the slot
\* empty.
C18_GateSlotConsistent ==
    /\ \A c \in Cells :
          /\ gate[c] \in {"Uninitialized", "Poisoned"} => ~SlotFilled(c)
          /\ gate[c] = "Complete" => SlotFilled(c)
    /\ \A t \in Threads :
          (InCall(t) /\ Top(t).pc = "unwind" /\ Top(t).ran) =>
              ~SlotFilled(Top(t).cell)

\* The Lazy cell is Poisoned and empty after a failed producer while HASHMAP
\* is Complete and filled after a failed and a successful evaluation.
C18_Witness ==
    /\ gate["LAZY"] = "Poisoned" /\ ~SlotFilled("LAZY") /\ failed["LAZY"]
    /\ gate["HASHMAP"] = "Complete" /\ SlotFilled("HASHMAP")
    /\ failed["HASHMAP"]
====
